---- MODULE Spec2Model ----
(***************************************************************************)
(* Model of the Tanita BC-601 export reader: the tagged key/value record   *)
(* decoders and primitive parsers (src/src/application/parser.rs), the     *)
(* date/time/gender types (src/src/application/general_data_structs.rs)    *)
(* and the domain builder and message handler (src/src/application.rs).    *)
(*                                                                         *)
(* A Rust &str / String is a sequence of one-character strings.  An        *)
(* Option<T> is a sequence of length 0 (None) or 1 (Some).  A call that    *)
(* can panic returns [panic |-> BOOLEAN, val |-> <<v>> or <<>>].            *)
(***************************************************************************)
EXTENDS Integers, Sequences, FiniteSets, TLC

VARIABLES
    measurements,   \* Application.measurements : Vec<UserMeasurements>
    selected_tab,   \* Application.selected_tab : usize
    tasks,          \* pick_folder() tasks started by Task::perform, not yet completed
    started,        \* number of pick_folder() tasks started so far
    crashed,        \* TRUE once a panic has unwound out of update or view
    last_load,      \* history: the root directory and outcome of the last PathPicked(Some(_))
    pc,             \* which function has been applied (or "call"); in the application,
                    \* "app", and the function a panic has unwound out of view from
    arg,            \* function specifications: the argument
    ret             \* function specifications: the returned value

vars == <<measurements, selected_tab, tasks, started, crashed, last_load, pc, arg, ret>>

(***************************************************************************)
(* Option, panics                                                          *)
(***************************************************************************)
None == <<>>
Some(v) == <<v>>
is_some(o) == Len(o) = 1
unwrap_val(o) == o[1]
\* Option::unwrap_or
unwrap_or(o, default) == IF Len(o) = 1 THEN o[1] ELSE default

Ok(v) == [panic |-> FALSE, val |-> <<v>>]
Panicked == [panic |-> TRUE, val |-> <<>>]

(***************************************************************************)
(* Characters and strings                                                  *)
(***************************************************************************)
Digits == <<"0", "1", "2", "3", "4", "5", "6", "7", "8", "9">>
LowerChars == <<"a", "b", "c", "d", "e", "f", "g", "h", "i", "j", "k", "l", "m",
                "n", "o", "p", "q", "r", "s", "t", "u", "v", "w", "x", "y", "z">>
UpperChars == <<"A", "B", "C", "D", "E", "F", "G", "H", "I", "J", "K", "L", "M",
                "N", "O", "P", "Q", "R", "S", "T", "U", "V", "W", "X", "Y", "Z">>
WhiteSpace == {" ", "\t", "\r", "\n"}
QUOTE == "\""

is_digit(c) == \E i \in 1..10 : Digits[i] = c
digit_value(c) == (CHOOSE i \in 1..10 : Digits[i] = c) - 1

\* char::to_ascii_uppercase
char_to_ascii_uppercase(c) ==
    IF \E i \in 1..26 : LowerChars[i] = c
    THEN UpperChars[CHOOSE i \in 1..26 : LowerChars[i] = c]
    ELSE c

\* a mutation of to_ascii_uppercase: the name is compared as it is listed
to_ascii_uppercase_as_listed(s) == s

\* str::to_ascii_uppercase
to_ascii_uppercase(s) == [i \in 1..Len(s) |-> char_to_ascii_uppercase(s[i])]

\* the tail of s from 0-based position i on
str_from(s, i) == SubSeq(s, i + 1, Len(s))

starts_with(s, p) == Len(p) <= Len(s) /\ SubSeq(s, 1, Len(p)) = p
ends_with(s, p) == Len(p) <= Len(s) /\ SubSeq(s, Len(s) - Len(p) + 1, Len(s)) = p

\* str::strip_prefix / str::strip_suffix : Option<&str>
strip_prefix(s, p) == IF starts_with(s, p) THEN Some(str_from(s, Len(p))) ELSE None
strip_suffix(s, p) == IF ends_with(s, p) THEN Some(SubSeq(s, 1, Len(s) - Len(p))) ELSE None

\* str::trim : leading and trailing white space removed
RECURSIVE trim_start(_)
trim_start(s) ==
    IF s # <<>> /\ s[1] \in WhiteSpace THEN trim_start(Tail(s)) ELSE s
RECURSIVE trim_end(_)
trim_end(s) ==
    IF s # <<>> /\ s[Len(s)] \in WhiteSpace THEN trim_end(SubSeq(s, 1, Len(s) - 1)) ELSE s
trim(s) == trim_end(trim_start(s))

\* str::trim_matches(c) : every leading and trailing c removed
RECURSIVE trim_start_matches(_, _)
trim_start_matches(s, c) ==
    IF s # <<>> /\ s[1] = c THEN trim_start_matches(Tail(s), c) ELSE s
RECURSIVE trim_end_matches(_, _)
trim_end_matches(s, c) ==
    IF s # <<>> /\ s[Len(s)] = c
    THEN trim_end_matches(SubSeq(s, 1, Len(s) - 1), c)
    ELSE s
trim_matches(s, c) == trim_end_matches(trim_start_matches(s, c), c)

\* str::find(c): the 1-based position of the first c in s, 0 when there is none
find_char(s, c) ==
    IF \E i \in 1..Len(s) : s[i] = c
    THEN CHOOSE i \in 1..Len(s) : s[i] = c /\ \A j \in 1..(i - 1) : s[j] # c
    ELSE 0

\* str::split(sep).collect() : always at least one piece; "" splits into [""]
RECURSIVE split(_, _)
split(s, sep) ==
    LET i == find_char(s, sep) IN
    IF i = 0 THEN <<s>>
    ELSE <<SubSeq(s, 1, i - 1)>> \o split(str_from(s, i), sep)

\* str::lines().collect() : a line ends at "\n" (a "\r" before it is dropped); the
\* text after the last "\n" is a line only when it is not empty
RECURSIVE lines(_)
lines(s) ==
    LET i == find_char(s, "\n") IN
    IF s = <<>> THEN <<>>
    ELSE IF i = 0 THEN <<s>>
    ELSE <<(IF i > 1 /\ s[i - 1] = "\r" THEN SubSeq(s, 1, i - 2) ELSE SubSeq(s, 1, i - 1))>>
         \o lines(str_from(s, i))

(***************************************************************************)
(* Integer and float parsing (core::str::FromStr)                          *)
(***************************************************************************)
U8_MAX == 255
U16_MAX == 65535

RECURSIVE digits_value(_, _)
digits_value(s, acc) ==
    IF s = <<>> THEN acc ELSE digits_value(Tail(s), acc * 10 + digit_value(s[1]))

all_digits(s) == \A i \in 1..Len(s) : is_digit(s[i])

\* a mutation of parse_unsigned: a value out of range wraps modulo max + 1
parse_unsigned_wrapping(s, max) ==
    LET body == IF s # <<>> /\ s[1] = "+" THEN Tail(s) ELSE s IN
    IF body = <<>> \/ ~all_digits(body) THEN None
    ELSE Some(digits_value(body, 0) % (max + 1))

\* <unsigned>::from_str : an optional "+", then one or more digits, in range
parse_unsigned(s, max) ==
    LET body == IF s # <<>> /\ s[1] = "+" THEN Tail(s) ELSE s IN
    IF body = <<>> \/ ~all_digits(body) THEN None
    ELSE IF digits_value(body, 0) > max THEN None
    ELSE Some(digits_value(body, 0))

str_parse_u8(s) == parse_unsigned(s, U8_MAX)
\* usize::from_str; the digit runs of the model's file names are far below usize::MAX
str_parse_usize(s) ==
    LET body == IF s # <<>> /\ s[1] = "+" THEN Tail(s) ELSE s IN
    IF body = <<>> \/ ~all_digits(body) THEN None ELSE Some(digits_value(body, 0))
str_parse_u16(s) == parse_unsigned(s, U16_MAX)

\* An f32 is the decimal mant / 10^exp with no trailing fraction zero
\* (tokens of the model have at most six significant digits, which f32 keeps apart).
RECURSIVE f32_norm(_, _)
f32_norm(mant, exp) ==
    IF exp > 0 /\ mant % 10 = 0 THEN f32_norm(mant \div 10, exp - 1)
    ELSE [mant |-> mant, exp |-> exp]
F32_ZERO == [mant |-> 0, exp |-> 0]

\* f32::from_str on sign, digits and ".": [+-] digits* [ "." digits* ], one digit at least
str_parse_f32(s) ==
    LET neg == s # <<>> /\ s[1] = "-"
        body == IF s # <<>> /\ s[1] \in {"+", "-"} THEN Tail(s) ELSE s
        parts == split(body, ".")
        int_part == parts[1]
        frac_part == IF Len(parts) = 2 THEN parts[2] ELSE <<>>
        mant == digits_value(int_part \o frac_part, 0)
    IN
    IF Len(parts) > 2 \/ ~all_digits(int_part) \/ ~all_digits(frac_part)
       \/ int_part \o frac_part = <<>>
    THEN None
    ELSE Some(f32_norm(IF neg THEN 0 - mant ELSE mant, Len(frac_part)))

(***************************************************************************)
(* TanitaParser primitive parsers                                          *)
(***************************************************************************)
\* fn parse_u8(s) = s.parse::<u8>().unwrap_or(0)
parse_u8(s) == unwrap_or(str_parse_u8(s), 0)
\* fn parse_u16(s) = s.parse::<u16>().unwrap_or(0)
parse_u16(s) == unwrap_or(str_parse_u16(s), 0)
\* fn parse_f32(s) = s.parse::<f32>().unwrap_or(0.0)
parse_f32(s) == unwrap_or(str_parse_f32(s), F32_ZERO)

\* a mutation of unquote: the trimmed token is kept with its quotes
unquote_keep_quotes(s) == trim(s)

\* fn unquote(s): trim, then strip one leading and one trailing quote if both are there
unquote(s) ==
    LET t == trim(s)
        p == strip_prefix(t, <<QUOTE>>)
        q == IF is_some(p) THEN strip_suffix(unwrap_val(p), <<QUOTE>>) ELSE None
    IN IF is_some(q) THEN unwrap_val(q) ELSE t

(***************************************************************************)
(* The tags of the record line format (the string literals of the match    *)
(* arms of ProfRaw::from_csv_row and DataRaw::from_csv_row)                *)
(***************************************************************************)
K_MO == <<"M", "O">>
K_DT == <<"D", "T">>
K_Ti == <<"T", "i">>
K_GE == <<"G", "E">>
K_AG == <<"A", "G">>
K_Hm == <<"H", "m">>
K_AL == <<"A", "L">>
K_Bt == <<"B", "t">>
K_Wk == <<"W", "k">>
K_MI == <<"M", "I">>
K_FW == <<"F", "W">>
K_Fr == <<"F", "r">>
K_Fl == <<"F", "l">>
K_FR == <<"F", "R">>
K_FL == <<"F", "L">>
K_FT == <<"F", "T">>
K_mW == <<"m", "W">>
K_ml == <<"m", "l">>
K_mr == <<"m", "r">>
K_mR == <<"m", "R">>
K_mL == <<"m", "L">>
K_mT == <<"m", "T">>
K_bw == <<"b", "w">>
K_ww == <<"w", "w">>
K_IF == <<"I", "F">>
K_rA == <<"r", "A">>
K_rD == <<"r", "D">>
K_CS == <<"C", "S">>
K_DB == <<"D", "B">>

(***************************************************************************)
(* ProfRaw and ProfRaw::from_csv_row                                       *)
(***************************************************************************)
\* ProfRaw::default()
ProfRaw_default ==
    [model |-> <<>>, birth_date_dmy |-> <<>>, body_type_code |-> 0, gender_code |-> 0,
     height_cm |-> F32_ZERO, activity_level_code |-> 0, checksum |-> <<>>]

\* the match on key of ProfRaw::from_csv_row; an unknown key is logged and ignored
ProfRaw_match(profile_raw, key, value) ==
    CASE key = K_MO -> [profile_raw EXCEPT !.model = unquote(value)]
      [] key = K_DB -> [profile_raw EXCEPT !.birth_date_dmy = unquote(value)]
      [] key = K_Bt -> [profile_raw EXCEPT !.body_type_code = parse_u8(value)]
      [] key = K_GE -> [profile_raw EXCEPT !.gender_code = parse_u8(value)]
      [] key = K_Hm -> [profile_raw EXCEPT !.height_cm = parse_f32(value)]
      [] key = K_AL -> [profile_raw EXCEPT !.activity_level_code = parse_u8(value)]
      [] key = K_CS -> [profile_raw EXCEPT !.checksum = unquote(value)]
      [] OTHER -> profile_raw

\* the while loop of ProfRaw::from_csv_row; key_pointer is 0-based as in the source,
\* and data_entries[key_pointer + 1] panics when key_pointer + 1 >= data_entries.len()
RECURSIVE ProfRaw_loop(_, _, _)
ProfRaw_loop(data_entries, key_pointer, profile_raw) ==
    IF ~(key_pointer < Len(data_entries)) THEN Ok(profile_raw)
    ELSE IF ~(key_pointer + 1 < Len(data_entries)) THEN Panicked
    ELSE LET key == data_entries[key_pointer + 1]
             value == data_entries[key_pointer + 2]
         IN ProfRaw_loop(data_entries, key_pointer + 2, ProfRaw_match(profile_raw, key, value))

ProfRaw_from_csv_row(row) == ProfRaw_loop(split(row, ","), 0, ProfRaw_default)

(***************************************************************************)
(* DataRaw and DataRaw::from_csv_row                                       *)
(***************************************************************************)
\* DataRaw::default()
DataRaw_default ==
    [model |-> <<>>, date_dmy |-> <<>>, time_hms |-> <<>>,
     gender_code |-> 0, age_years |-> 0, height_cm |-> F32_ZERO,
     activity_level_code |-> 0, body_type_code |-> 0,
     weight_kg |-> F32_ZERO, bmi |-> F32_ZERO, fat_percent |-> F32_ZERO,
     fat_right_arm_pct |-> F32_ZERO, fat_left_arm_pct |-> F32_ZERO,
     fat_right_leg_pct |-> F32_ZERO, fat_left_leg_pct |-> F32_ZERO,
     fat_trunk_pct |-> F32_ZERO,
     muscle_percent |-> None, muscle_right_arm_pct |-> None, muscle_left_arm_pct |-> None,
     muscle_right_leg_pct |-> None, muscle_left_leg_pct |-> None, muscle_trunk_pct |-> None,
     bone_kg |-> None, water_percent |-> None, visceral_fat_rating |-> None,
     metabolic_age_years |-> None, daily_calorie_intake_kcal |-> None,
     checksum |-> <<>>, extras |-> <<>>]

\* a mutation of Some_parse_u8: the field is present only when the value parses
Some_parse_u8_ok(value) == str_parse_u8(value)

\* Some(TanitaParser::parse_u8(value)), the right-hand side of the IF and rA arms
Some_parse_u8(value) == Some(parse_u8(value))
\* Some(TanitaParser::parse_u16(value)), the right-hand side of the rD arm
Some_parse_u16(value) == Some(parse_u16(value))
\* Some(TanitaParser::parse_f32(value)), the right-hand side of the mW..ww arms
Some_parse_f32(value) == Some(parse_f32(value))

\* a mutation of DataRaw_extra: the value is unquoted like the string fields
DataRaw_extra_unquoted(data_raw, key, value) ==
    [data_raw EXCEPT !.extras = Append(@, <<key, unquote(value)>>)]

\* the default arm: data_raw.extras.push((key.to_string(), value.to_string()))
DataRaw_extra(data_raw, key, value) ==
    [data_raw EXCEPT !.extras = Append(@, <<key, value>>)]

\* the match on key of DataRaw::from_csv_row
DataRaw_match(data_raw, key, value) ==
    CASE key = K_MO -> [data_raw EXCEPT !.model = unquote(value)]
      [] key = K_DT -> [data_raw EXCEPT !.date_dmy = unquote(value)]
      [] key = K_Ti -> [data_raw EXCEPT !.time_hms = unquote(value)]
      [] key = K_GE -> [data_raw EXCEPT !.gender_code = parse_u8(value)]
      [] key = K_AG -> [data_raw EXCEPT !.age_years = parse_u8(value)]
      [] key = K_Hm -> [data_raw EXCEPT !.height_cm = parse_f32(value)]
      [] key = K_AL -> [data_raw EXCEPT !.activity_level_code = parse_u8(value)]
      [] key = K_Bt -> [data_raw EXCEPT !.body_type_code = parse_u8(value)]
      [] key = K_Wk -> [data_raw EXCEPT !.weight_kg = parse_f32(value)]
      [] key = K_MI -> [data_raw EXCEPT !.bmi = parse_f32(value)]
      [] key = K_FW -> [data_raw EXCEPT !.fat_percent = parse_f32(value)]
      [] key = K_Fr -> [data_raw EXCEPT !.fat_right_arm_pct = parse_f32(value)]
      [] key = K_Fl -> [data_raw EXCEPT !.fat_left_arm_pct = parse_f32(value)]
      [] key = K_FR -> [data_raw EXCEPT !.fat_right_leg_pct = parse_f32(value)]
      [] key = K_FL -> [data_raw EXCEPT !.fat_left_leg_pct = parse_f32(value)]
      [] key = K_FT -> [data_raw EXCEPT !.fat_trunk_pct = parse_f32(value)]
      [] key = K_mW -> [data_raw EXCEPT !.muscle_percent = Some_parse_f32(value)]
      [] key = K_ml -> [data_raw EXCEPT !.muscle_left_arm_pct = Some_parse_f32(value)]
      [] key = K_mr -> [data_raw EXCEPT !.muscle_right_arm_pct = Some_parse_f32(value)]
      [] key = K_mR -> [data_raw EXCEPT !.muscle_right_leg_pct = Some_parse_f32(value)]
      [] key = K_mL -> [data_raw EXCEPT !.muscle_left_leg_pct = Some_parse_f32(value)]
      [] key = K_mT -> [data_raw EXCEPT !.muscle_trunk_pct = Some_parse_f32(value)]
      [] key = K_bw -> [data_raw EXCEPT !.bone_kg = Some_parse_f32(value)]
      [] key = K_ww -> [data_raw EXCEPT !.water_percent = Some_parse_f32(value)]
      [] key = K_IF -> [data_raw EXCEPT !.visceral_fat_rating = Some_parse_u8(value)]
      [] key = K_rA -> [data_raw EXCEPT !.metabolic_age_years = Some_parse_u8(value)]
      [] key = K_rD -> [data_raw EXCEPT !.daily_calorie_intake_kcal = Some_parse_u16(value)]
      [] key = K_CS -> [data_raw EXCEPT !.checksum = unquote(value)]
      [] OTHER -> DataRaw_extra(data_raw, key, value)

\* the while loop of DataRaw::from_csv_row; key_pointer is 0-based as in the source,
\* and data_entries[key_pointer + 1] panics when key_pointer + 1 >= data_entries.len()
RECURSIVE DataRaw_loop(_, _, _)
DataRaw_loop(data_entries, key_pointer, data_raw) ==
    IF ~(key_pointer < Len(data_entries)) THEN Ok(data_raw)
    ELSE IF ~(key_pointer + 1 < Len(data_entries)) THEN Panicked
    ELSE LET key == data_entries[key_pointer + 1]
             value == data_entries[key_pointer + 2]
         IN DataRaw_loop(data_entries, key_pointer + 2, DataRaw_match(data_raw, key, value))

DataRaw_from_csv_row(row) == DataRaw_loop(split(row, ","), 0, DataRaw_default)

(***************************************************************************)
(* Date, Time, DateTime, Gender                                            *)
(***************************************************************************)
\* a mutation of Date_from_string: the components after the third are not looked at
Date_from_string_first_three(date_dmy) ==
    LET parts == split(trim_matches(date_dmy, QUOTE), "/") IN
    IF Len(parts) < 3 THEN None
    ELSE LET days == str_parse_u8(parts[1])
             months == str_parse_u8(parts[2])
             years == str_parse_u16(parts[3])
         IN IF is_some(days) /\ is_some(months) /\ is_some(years)
            THEN Some([days |-> unwrap_val(days), months |-> unwrap_val(months),
                       years |-> unwrap_val(years)])
            ELSE None

\* Date::from_string : Option<Date>
Date_from_string(date_dmy) ==
    LET parts == split(trim_matches(date_dmy, QUOTE), "/") IN
    IF Len(parts) # 3 THEN None
    ELSE LET days == str_parse_u8(parts[1])
             months == str_parse_u8(parts[2])
             years == str_parse_u16(parts[3])
         IN IF is_some(days) /\ is_some(months) /\ is_some(years)
            THEN Some([days |-> unwrap_val(days), months |-> unwrap_val(months),
                       years |-> unwrap_val(years)])
            ELSE None

\* Display of an unsigned integer: its decimal digits
RECURSIVE to_string(_)
to_string(n) ==
    IF n < 10 THEN <<Digits[n + 1]>> ELSE to_string(n \div 10) \o <<Digits[(n % 10) + 1]>>

\* Date::to_srting : format!("{}/{}/{}", self.years, self.months, self.days)
Date_to_srting(self) ==
    to_string(self.years) \o <<"/">> \o to_string(self.months) \o <<"/">> \o to_string(self.days)

\* Time::from_string : Option<Time>
Time_from_string(time_hms) ==
    LET parts == split(trim_matches(time_hms, QUOTE), ":") IN
    IF Len(parts) # 3 THEN None
    ELSE LET hours == str_parse_u8(parts[1])
             minutes == str_parse_u8(parts[2])
             seconds == str_parse_u8(parts[3])
         IN IF is_some(hours) /\ is_some(minutes) /\ is_some(seconds)
            THEN Some([hours |-> unwrap_val(hours), minutes |-> unwrap_val(minutes),
                       seconds |-> unwrap_val(seconds)])
            ELSE None

\* a mutation of DateTime_from_string: a time that does not parse becomes 0:0:0
DateTime_from_string_midnight(date_dmy, time_hms) ==
    LET date == Date_from_string(date_dmy) IN
    IF is_some(date)
    THEN Some([date |-> unwrap_val(date),
               time |-> unwrap_or(Time_from_string(time_hms),
                                  [hours |-> 0, minutes |-> 0, seconds |-> 0])])
    ELSE None

\* DateTime::from_string : Option<DateTime>
DateTime_from_string(date_dmy, time_hms) ==
    LET date == Date_from_string(date_dmy)
        time == Time_from_string(time_hms)
    IN IF is_some(date) /\ is_some(time)
       THEN Some([date |-> unwrap_val(date), time |-> unwrap_val(time)])
       ELSE None

\* a mutation of Gender_from: Other does not carry the code it was made from
Gender_from_other_zero(code) ==
    CASE code = 1 -> [variant |-> "Male", code |-> None]
      [] code = 2 -> [variant |-> "Female", code |-> None]
      [] OTHER -> [variant |-> "Other", code |-> Some(0)]

\* impl From<u8> for Gender
Gender_from(code) ==
    CASE code = 1 -> [variant |-> "Male", code |-> None]
      [] code = 2 -> [variant |-> "Female", code |-> None]
      [] OTHER -> [variant |-> "Other", code |-> Some(code)]

(***************************************************************************)
(* Profile, Measurement, UserMeasurements (application.rs)                 *)
(***************************************************************************)
\* a mutation of Profile_from_raw: a birth date that does not parse becomes 0/0/0
Profile_from_raw_default_date(raw) ==
    Some([birth_date_dmy |-> unwrap_or(Date_from_string(raw.birth_date_dmy),
                                       [days |-> 0, months |-> 0, years |-> 0]),
          body_type_code |-> raw.body_type_code,
          activity_level_code |-> raw.activity_level_code,
          height_cm |-> raw.height_cm,
          gender |-> Gender_from(raw.gender_code)])

\* Profile::from_raw : Option<Profile>
Profile_from_raw(raw) ==
    LET date == Date_from_string(raw.birth_date_dmy) IN
    IF ~is_some(date) THEN None
    ELSE Some([birth_date_dmy |-> unwrap_val(date),
               body_type_code |-> raw.body_type_code,
               activity_level_code |-> raw.activity_level_code,
               height_cm |-> raw.height_cm,
               gender |-> Gender_from(raw.gender_code)])

\* Measurement::from_raw : Option<Measurement>
Measurement_from_raw(raw) ==
    LET date_time == DateTime_from_string(raw.date_dmy, raw.time_hms) IN
    IF ~is_some(date_time) THEN None
    ELSE Some([date_time |-> unwrap_val(date_time),
               activity_level_code |-> raw.activity_level_code,
               body_type_code |-> raw.body_type_code,
               daily_calorie_intake_kcal |-> raw.daily_calorie_intake_kcal,
               metabolic_age_years |-> raw.metabolic_age_years,
               visceral_fat_rating |-> raw.visceral_fat_rating,
               water_percent |-> raw.water_percent,
               bone_kg |-> raw.bone_kg,
               muscle_trunk_pct |-> raw.muscle_trunk_pct,
               muscle_left_leg_pct |-> raw.muscle_left_leg_pct,
               muscle_right_leg_pct |-> raw.muscle_right_leg_pct,
               muscle_right_arm_pct |-> raw.muscle_right_arm_pct,
               muscle_left_arm_pct |-> raw.muscle_left_arm_pct,
               muscle_percent |-> raw.muscle_percent,
               fat_trunk_pct |-> raw.fat_trunk_pct,
               fat_left_leg_pct |-> raw.fat_left_leg_pct,
               fat_right_leg_pct |-> raw.fat_right_leg_pct,
               fat_left_arm_pct |-> raw.fat_left_arm_pct,
               fat_right_arm_pct |-> raw.fat_right_arm_pct,
               fat_percent |-> raw.fat_percent,
               bmi |-> raw.bmi,
               weight_kg |-> raw.weight_kg,
               age_years |-> raw.age_years])

\* the match on m of the loop body: Some(m) is pushed, None is printed and passed over
push_measurement(measurements_acc, m) ==
    IF is_some(m) THEN Append(measurements_acc, unwrap_val(m)) ELSE measurements_acc

\* a mutation of UserMeasurements_loop: the loop ends at the first record that fails
RECURSIVE UserMeasurements_loop_break(_, _, _)
UserMeasurements_loop_break(data, i, measurements_acc) ==
    IF i > Len(data) \/ Len(measurements_acc) < i - 1 THEN measurements_acc
    ELSE UserMeasurements_loop_break(data, i + 1,
             push_measurement(measurements_acc, Measurement_from_raw(data[i])))

\* the for loop of UserMeasurements::from_raw over raw.data
RECURSIVE UserMeasurements_loop(_, _, _)
UserMeasurements_loop(data, i, measurements_acc) ==
    IF i > Len(data) THEN measurements_acc
    ELSE UserMeasurements_loop(data, i + 1,
             push_measurement(measurements_acc, Measurement_from_raw(data[i])))

\* the struct built at the end of UserMeasurements::from_raw, reached only when
\* Profile::from_raw(raw.profile).unwrap() did not panic
UserMeasurements_new(raw, profile) ==
    IF ~is_some(profile) THEN Panicked
    ELSE Ok([index |-> raw.index,
             profile |-> unwrap_val(profile),
             measurements |-> UserMeasurements_loop(raw.data, 1, <<>>)])

\* UserMeasurements::from_raw
UserMeasurements_from_raw(raw) == UserMeasurements_new(raw, Profile_from_raw(raw.profile))

(***************************************************************************)
(* The file system seen by TanitaParser.  A root directory is              *)
(*   [DATA |-> dir, SYSTEM |-> dir],                                       *)
(*   dir   = [is_dir, read_dir_ok : BOOLEAN, entries : Seq(entry)],        *)
(*   entry = [file_name : string, exists : BOOLEAN, content : Option]      *)
(* entries is the order in which fs::read_dir yields them; exists is FALSE *)
(* for a dangling link; content is None when fs::read_to_string fails.     *)
(* A PathBuf of a listed entry is the entry itself.                        *)
(***************************************************************************)
PROFILE_FOLDER_NAME == "SYSTEM"
DATA_FOLDER_NAME == "DATA"
DATA_FILE_NAME_PREFIX == <<"D", "A", "T", "A">>
PROFILE_FILE_NAME_PREFIX == <<"P", "R", "O", "F">>
CSV_EXTENTION_NAME == <<".", "C", "S", "V">>

\* TanitaParser::require_dir : TanitaResult<PathBuf>
require_dir(root_dir, name) ==
    IF root_dir[name].is_dir
    THEN [is_ok |-> TRUE, dir |-> Some(root_dir[name]), err |-> None]
    ELSE [is_ok |-> FALSE, dir |-> None, err |-> Some(<<"MissingDir", name>>)]

\* TanitaParser::get_index : Option<usize>
get_index(file_name) ==
    LET name == to_ascii_uppercase(file_name)
        name_wihtout_extention == strip_suffix(name, CSV_EXTENTION_NAME)
    IN
    IF ~is_some(name_wihtout_extention) THEN None
    ELSE LET n == unwrap_val(name_wihtout_extention)
             d == strip_prefix(n, DATA_FILE_NAME_PREFIX)
             p == strip_prefix(n, PROFILE_FILE_NAME_PREFIX)
         IN IF is_some(d) THEN str_parse_usize(unwrap_val(d))
            ELSE IF is_some(p) THEN str_parse_usize(unwrap_val(p))
            ELSE None

\* BTreeMap::insert on a map kept as a function from its keys
map_insert(m, k, v) == [x \in (DOMAIN m) \cup {k} |-> IF x = k THEN v ELSE m[x]]
EmptyMap == [x \in {} |-> <<>>]

\* the for loop of collect_files over the listed entries
RECURSIVE collect_loop(_, _, _)
collect_loop(entries, i, collecton) ==
    IF i > Len(entries) THEN collecton
    ELSE LET idx == get_index(entries[i].file_name) IN
         collect_loop(entries, i + 1,
                      IF is_some(idx) THEN map_insert(collecton, unwrap_val(idx), entries[i])
                      ELSE collecton)

\* TanitaParser::collect_files : BTreeMap<usize, PathBuf>; a listing error is
\* printed and leaves the map empty
collect_files(dir) ==
    IF dir.read_dir_ok THEN collect_loop(dir.entries, 1, EmptyMap) ELSE EmptyMap

SetMin(S) == CHOOSE x \in S : \A y \in S : x <= y

\* a mutation of pair_loop: an index without a data file is skipped
RECURSIVE pair_loop_skip(_, _, _, _)
pair_loop_skip(prof_files, data_files, rest, tanita_pairs) ==
    IF rest = {} THEN Ok(tanita_pairs)
    ELSE LET file_num == SetMin(rest) IN
         IF file_num \notin DOMAIN data_files \/ ~data_files[file_num].exists
         THEN pair_loop_skip(prof_files, data_files, rest \ {file_num}, tanita_pairs)
         ELSE pair_loop_skip(prof_files, data_files, rest \ {file_num},
                             Append(tanita_pairs,
                                    [index |-> file_num, profile |-> prof_files[file_num],
                                     data |-> data_files[file_num]]))

\* the first for loop of get_raw_users_records, over prof_files in ascending key
\* order (rest: the keys not yet visited); data_files[&file_num] panics when the
\* key is missing, and the else branch panics when the path does not exist
RECURSIVE pair_loop(_, _, _, _)
pair_loop(prof_files, data_files, rest, tanita_pairs) ==
    IF rest = {} THEN Ok(tanita_pairs)
    ELSE LET file_num == SetMin(rest) IN
         IF file_num \notin DOMAIN data_files THEN Panicked
         ELSE IF ~data_files[file_num].exists THEN Panicked
         ELSE pair_loop(prof_files, data_files, rest \ {file_num},
                        Append(tanita_pairs,
                               [index |-> file_num, profile |-> prof_files[file_num],
                                data |-> data_files[file_num]]))

\* the loop over data_file_content.lines(): one DataRaw per line, or the panic of a line
RECURSIVE data_lines_loop(_, _, _)
data_lines_push(ls, i, data, d) ==
    IF d.panic THEN Panicked ELSE data_lines_loop(ls, i + 1, Append(data, d.val[1]))
data_lines_loop(ls, i, data) ==
    IF i > Len(ls) THEN Ok(data)
    ELSE data_lines_push(ls, i, data, DataRaw_from_csv_row(ls[i]))

\* the RawUserRecord of a pair, from its decoded profile line and data lines
RawUserRecord_new(index, profile, data) ==
    IF profile.panic \/ data.panic THEN Panicked
    ELSE Ok([index |-> index, data |-> data.val[1], profile |-> profile.val[1]])

\* a mutation of decode_pair: the profile is decoded from the last line of its file
decode_pair_last_line(index, prof_lines, data_file_content) ==
    IF prof_lines = <<>> THEN Panicked
    ELSE RawUserRecord_new(index, ProfRaw_from_csv_row(prof_lines[Len(prof_lines)]),
                           data_lines_loop(lines(data_file_content), 1, <<>>))

\* the pair's files as read: prof_lines[0] panics when the profile file has no line
decode_pair(index, prof_lines, data_file_content) ==
    IF prof_lines = <<>> THEN Panicked
    ELSE RawUserRecord_new(index, ProfRaw_from_csv_row(prof_lines[1]),
                           data_lines_loop(lines(data_file_content), 1, <<>>))

\* the body of the second for loop: one pair read and decoded; each of the two
\* fs::read_to_string(..).unwrap() panics when the file cannot be read
read_pair(pair) ==
    IF ~is_some(pair.profile.content) THEN Panicked
    ELSE IF ~is_some(pair.data.content) THEN Panicked
    ELSE decode_pair(pair.index, lines(unwrap_val(pair.profile.content)),
                     unwrap_val(pair.data.content))

\* the second for loop of get_raw_users_records
RECURSIVE read_loop(_, _, _)
read_push(tanita_pairs, i, users_records, r) ==
    IF r.panic THEN Panicked
    ELSE read_loop(tanita_pairs, i + 1, Append(users_records, r.val[1]))
read_loop(tanita_pairs, i, users_records) ==
    IF i > Len(tanita_pairs) THEN Ok(users_records)
    ELSE read_push(tanita_pairs, i, users_records, read_pair(tanita_pairs[i]))

\* get_raw_users_records from the pairing on: the second loop runs unless the first panicked
read_pairs(tanita_pairs) ==
    IF tanita_pairs.panic THEN Panicked ELSE read_loop(tanita_pairs.val[1], 1, <<>>)

\* get_raw_users_records from the two maps on
pair_files(data_files, prof_files) ==
    read_pairs(pair_loop(prof_files, data_files, DOMAIN prof_files, <<>>))

\* TanitaParser::get_raw_users_records; the two require_dir(..).unwrap() panic on Err
get_raw_users_records(root_dir) ==
    IF ~require_dir(root_dir, DATA_FOLDER_NAME).is_ok THEN Panicked
    ELSE IF ~require_dir(root_dir, PROFILE_FOLDER_NAME).is_ok THEN Panicked
    ELSE pair_files(collect_files(unwrap_val(require_dir(root_dir, DATA_FOLDER_NAME).dir)),
                    collect_files(unwrap_val(require_dir(root_dir, PROFILE_FOLDER_NAME).dir)))

\* the for loop of the PathPicked arm: UserMeasurements::from_raw of every raw record
RECURSIVE ui_ready_loop(_, _, _)
ui_ready_push(raw, i, ui_ready_measurments, u) ==
    IF u.panic THEN Panicked
    ELSE ui_ready_loop(raw, i + 1, Append(ui_ready_measurments, u.val[1]))
ui_ready_loop(raw, i, ui_ready_measurments) ==
    IF i > Len(raw) THEN Ok(ui_ready_measurments)
    ELSE ui_ready_push(raw, i, ui_ready_measurments, UserMeasurements_from_raw(raw[i]))

\* the Some(file) arm of PathPicked up to the assignment: the new value of
\* self.measurements, or the panic of get_raw_users_records or of a from_raw
ui_ready_of(raw) == IF raw.panic THEN Panicked ELSE ui_ready_loop(raw.val[1], 1, <<>>)

(***************************************************************************)
(* Inputs                                                                  *)
(***************************************************************************)
MaxTokens == 4
MaxRecords == 3
MaxPicks == 2
MaxIndex == 2

RECURSIVE join(_, _)
join(tokens, sep) ==
    IF tokens = <<>> THEN <<>>
    ELSE IF Len(tokens) = 1 THEN tokens[1]
    ELSE tokens[1] \o <<sep>> \o join(Tail(tokens), sep)

quoted(s) == <<QUOTE>> \o s \o <<QUOTE>>

KnownDataKeys ==
    {K_MO, K_DT, K_Ti, K_GE, K_AG, K_Hm, K_AL, K_Bt, K_Wk, K_MI, K_FW, K_Fr, K_Fl, K_FR,
     K_FL, K_FT, K_mW, K_mr, K_ml, K_mR, K_mL, K_mT, K_bw, K_ww, K_IF, K_rA, K_rD, K_CS}
K_XX == <<"X", "X">>
V_7 == <<"7">>
V_x == <<"x">>

\* tokens at key positions: the data tags, the profile tag DB, an unknown tag, a quoted tag
KeyTokens == KnownDataKeys \cup {K_DB, K_XX, quoted(K_MO)}
\* the tags of the Option fields of DataRaw
OptionalDataKeys == {K_mW, K_ml, K_mr, K_mR, K_mL, K_mT, K_bw, K_ww, K_IF, K_rA, K_rD}
\* tokens at key positions after the first pair: the optional tags, a string tag,
\* two unknown tags
LaterKeyTokens == OptionalDataKeys \cup {K_MO, K_DB, K_XX}
\* tokens at value positions: a number, a non-number, a quoted number, the text of a tag
ValTokens == {V_7, V_x, quoted(V_7), K_IF}

\* the token sequences of length n: a key token at 0-based even positions, a value
\* token at odd ones
RECURSIVE TokenSeqs(_)
TokenSeqs(n) ==
    IF n = 0 THEN {<<>>}
    ELSE {Append(ts, t) : ts \in TokenSeqs(n - 1),
                          t \in (IF n % 2 = 0 THEN ValTokens
                                 ELSE IF n = 1 THEN KeyTokens ELSE LaterKeyTokens)}

\* the rows handed to the decoders: up to MaxTokens tokens joined by ","
RowInputs == UNION {{join(ts, ",") : ts \in TokenSeqs(n)} : n \in 0..MaxTokens}

\* the tokens of the profile line of a BC-601 export
ProfLineTokens ==
    <<K_MO, <<"B", "C", "-", "6", "0", "1">>, K_DB, <<"1", "4", "/", "0", "6", "/", "1", "9", "9", "1">>, K_GE, <<"1">>,
      K_Hm, <<"1", "7", "5", ".", "0">>, K_AL, <<"2">>, K_Bt, <<"0">>, K_CS, <<"A", "B">>>>
\* 1-based positions of the tags, of the string values and of the numeric values
ProfKeyPositions == {1, 3, 5, 7, 9, 11, 13}
ProfStringPositions == {2, 4, 14}
ProfNumberPositions == {6, 8, 10, 12}

\* the profile line with the tokens at the positions of q wrapped in double quotes
ProfLine(q) ==
    join([i \in 1..Len(ProfLineTokens) |->
             IF i \in q THEN quoted(ProfLineTokens[i]) ELSE ProfLineTokens[i]], ",")
ProfLineInputs == {ProfLine(q) : q \in SUBSET (1..Len(ProfLineTokens))}

\* data lines: two that parse, one whose date does not, one whose time does not
L_first == join(<<K_DT, quoted(<<"0", "1", "/", "0", "2", "/", "2", "0", "2", "0">>), K_Ti, quoted(<<"1", "0", ":", "1", "1", ":", "1", "2">>),
                  K_Wk, <<"7", "0", ".", "5">>>>, ",")
L_second == join(<<K_DT, quoted(<<"0", "3", "/", "0", "2", "/", "2", "0", "2", "0">>), K_Ti, quoted(<<"0", "7", ":", "0", "8", ":", "0", "9">>),
                   K_Wk, <<"7", "1", ".", "0">>, K_IF, V_7>>, ",")
L_bad_date == join(<<K_DT, quoted(<<"2", "0", "2", "0", "-", "0", "2", "-", "0", "2">>), K_Ti, quoted(<<"0", "9", ":", "0", "0", ":", "0", "0">>),
                     K_Wk, <<"7", "2", ".", "0">>>>, ",")
L_bad_time == join(<<K_DT, quoted(<<"0", "4", "/", "0", "2", "/", "2", "0", "2", "0">>), K_Ti, quoted(<<"2", "4", ":", "0", "0", ":", "3", "0", "0">>),
                     K_Wk, <<"7", "3", ".", "0">>>>, ",")
DataLines == {L_first, L_second, L_bad_date, L_bad_time}

\* profile lines: one whose birth date parses, one whose birth date does not
P_valid == ProfLine(ProfStringPositions)
P_bad_birth == join(<<K_MO, quoted(<<"B", "C", "-", "6", "0", "1">>), K_DB, quoted(<<"1", "4", "/", "0", "6">>), K_GE, <<"2">>>>, ",")

RECURSIVE SeqsUpTo(_, _)
SeqsUpTo(S, n) ==
    IF n = 0 THEN {<<>>}
    ELSE SeqsUpTo(S, n - 1)
         \cup {Append(q, x) : q \in {r \in SeqsUpTo(S, n - 1) : Len(r) = n - 1}, x \in S}

\* the RawUserRecords handed to UserMeasurements::from_raw: decoded lines
RawUserInputs ==
    {[index |-> i, profile |-> ProfRaw_from_csv_row(p).val[1], data |-> d] :
        i \in 1..MaxIndex, p \in {P_valid, P_bad_birth},
        d \in SeqsUpTo({DataRaw_from_csv_row(l).val[1] : l \in DataLines}, MaxRecords)}

NL == <<"\n">>
file_entry(name, content) == [file_name |-> name, exists |-> TRUE, content |-> Some(content)]
dangling_entry(name) == [file_name |-> name, exists |-> FALSE, content |-> None]
\* a file that exists and that fs::read_to_string fails on
unreadable_entry(name) == [file_name |-> name, exists |-> TRUE, content |-> None]
prof_name(i) == PROFILE_FILE_NAME_PREFIX \o <<Digits[i + 1]>> \o CSV_EXTENTION_NAME
data_name(i) == DATA_FILE_NAME_PREFIX \o <<Digits[i + 1]>> \o CSV_EXTENTION_NAME

\* what SYSTEM may hold for an index: nothing, a valid profile, an invalid one,
\* a file of no bytes
ProfChoices == {"absent", "valid", "bad_birth", "empty"}
prof_entry(i, c) ==
    IF c = "valid" THEN file_entry(prof_name(i), P_valid \o NL)
    ELSE IF c = "empty" THEN file_entry(prof_name(i), <<>>)
    ELSE file_entry(prof_name(i), P_bad_birth \o NL)
\* what DATA may hold for an index: nothing, two good lines, three lines of
\* which the middle one has a bad date, a dangling link, a file that cannot be read
DataChoices == {"absent", "two", "three", "dangling", "unreadable"}
data_entry(i, c) ==
    IF c = "two" THEN file_entry(data_name(i), L_first \o NL \o L_second \o NL)
    ELSE IF c = "three"
         THEN file_entry(data_name(i), L_first \o NL \o L_bad_date \o NL \o L_second \o NL)
    ELSE IF c = "unreadable" THEN unreadable_entry(data_name(i))
    ELSE dangling_entry(data_name(i))

RECURSIVE entries_of(_, _, _)
entries_of(choice, i, is_prof) ==
    IF i > MaxIndex THEN <<>>
    ELSE (IF choice[i] = "absent" THEN <<>>
          ELSE IF is_prof THEN <<prof_entry(i, choice[i])>>
          ELSE <<data_entry(i, choice[i])>>)
         \o entries_of(choice, i + 1, is_prof)

\* A path the folder dialog can return names what lies behind it: per
\* subdirectory its state ("missing", "unlistable", "listed") and, when listed,
\* what it holds for each index
NoFiles == [i \in 1..MaxIndex |-> "absent"]
DirStates(choices) ==
    {[state |-> "missing", files |-> NoFiles], [state |-> "unlistable", files |-> NoFiles]}
    \cup {[state |-> "listed", files |-> c] : c \in [1..MaxIndex -> choices]}
Paths == {[DATA |-> d, SYSTEM |-> y] : d \in DirStates(DataChoices), y \in DirStates(ProfChoices)}

dir_of(d, is_prof) ==
    [is_dir |-> d.state # "missing",
     read_dir_ok |-> d.state = "listed",
     entries |-> IF d.state = "listed" THEN entries_of(d.files, 1, is_prof) ELSE <<>>]

\* the file system: the root directory behind a path
root_dir_of(path) == [DATA |-> dir_of(path.DATA, FALSE), SYSTEM |-> dir_of(path.SYSTEM, TRUE)]

(***************************************************************************)
(* Application::update, one action per message                             *)
(***************************************************************************)
FnIdle == pc = "app" /\ arg = <<>> /\ ret = <<>>
AppIdle ==
    /\ measurements = <<>> /\ selected_tab = 0 /\ tasks = {} /\ started = 0
    /\ crashed = FALSE /\ last_load = None

\* Application::default()
Init == AppIdle /\ FnIdle

\* Message::PickFileOrFolder: Task::perform(pick_folder(), Message::PathPicked)
PickFileOrFolder ==
    /\ ~crashed
    /\ started < MaxPicks
    /\ started' = started + 1
    /\ tasks' = tasks \cup {started + 1}
    /\ UNCHANGED <<measurements, selected_tab, crashed, last_load, pc, arg, ret>>

\* a PathPicked(None) that would also forget the measurements on display
PathPickedNone_clears(t) ==
    /\ ~crashed
    /\ t \in tasks
    /\ tasks' = tasks \ {t}
    /\ measurements' = <<>>
    /\ UNCHANGED <<selected_tab, started, crashed, last_load, pc, arg, ret>>

\* Message::PathPicked(None): the dialog of task t was cancelled
PathPickedNone(t) ==
    /\ ~crashed
    /\ t \in tasks
    /\ tasks' = tasks \ {t}
    /\ UNCHANGED <<measurements, selected_tab, started, crashed, last_load, pc, arg, ret>>

\* an end of the Some(file) arm that would add the loaded sets to the ones on display
PathPicked_assign_extends(t, file, ui_ready_measurments) ==
    /\ last_load' = Some([task |-> t, file |-> file])
    /\ IF ui_ready_measurments.panic
       THEN /\ crashed' = TRUE
            /\ measurements' = <<>> /\ selected_tab' = 0 /\ tasks' = {}
       ELSE /\ measurements' = measurements \o ui_ready_measurments.val[1]
            /\ tasks' = tasks \ {t}
            /\ UNCHANGED <<crashed, selected_tab>>
    /\ UNCHANGED <<started, pc, arg, ret>>

\* the end of the Some(file) arm: self.measurements = ui_ready_measurments, unless
\* a panic has unwound out of update (the process and its state are gone)
PathPicked_assign(t, file, ui_ready_measurments) ==
    /\ last_load' = Some([task |-> t, file |-> file])
    /\ IF ui_ready_measurments.panic
       THEN /\ crashed' = TRUE
            /\ measurements' = <<>> /\ selected_tab' = 0 /\ tasks' = {}
       ELSE /\ measurements' = ui_ready_measurments.val[1]
            /\ tasks' = tasks \ {t}
            /\ UNCHANGED <<crashed, selected_tab>>
    /\ UNCHANGED <<started, pc, arg, ret>>

\* Message::PathPicked(Some(file)): the dialog of task t returned the path file
PathPickedSome(t, file) ==
    /\ ~crashed
    /\ t \in tasks
    /\ PathPicked_assign(t, file, ui_ready_of(get_raw_users_records(root_dir_of(file))))

\* the values on the tab buttons of Application::view
TabButtons == {measurements[p].index : p \in 1..Len(measurements)}

\* a TabSelected(i) that would also drop the measurements
TabSelected_resets(i) ==
    /\ ~crashed
    /\ i \in TabButtons
    /\ selected_tab' = i
    /\ measurements' = <<>>
    /\ UNCHANGED <<tasks, started, crashed, last_load, pc, arg, ret>>

\* Message::TabSelected(i), i the value of a button of the current view
TabSelected(i) ==
    /\ ~crashed
    /\ i \in TabButtons
    /\ selected_tab' = i
    /\ UNCHANGED <<measurements, tasks, started, crashed, last_load, pc, arg, ret>>

\* Application::view, which the runtime calls to draw the state: with measurements
\* to show it reads self.measurements[self.selected_tab], and the index panics
\* when the cursor is not below the length (the process and its state are gone)
View ==
    /\ ~crashed
    /\ IF measurements # <<>> /\ ~(selected_tab < Len(measurements))
       THEN /\ crashed' = TRUE
            /\ pc' = "Application::view"
            /\ measurements' = <<>> /\ selected_tab' = 0 /\ tasks' = {}
            /\ UNCHANGED <<started, last_load, arg, ret>>
       ELSE UNCHANGED vars

Next ==
    \/ PickFileOrFolder
    \/ \E t \in 1..MaxPicks : PathPickedNone(t)
    \/ \E t \in 1..MaxPicks, file \in Paths : PathPickedSome(t, file)
    \/ \E i \in 0..MaxIndex : TabSelected(i)
    \/ View

Spec == Init /\ [][Next]_vars

(***************************************************************************)
(* Function specifications: the argument is drawn from a bounded set and   *)
(* one action applies the function to it                                   *)
(***************************************************************************)
\* DataRaw::from_csv_row(arg)
CallDataRaw ==
    /\ pc = "call"
    /\ pc' = "DataRaw::from_csv_row"
    /\ ret' = DataRaw_from_csv_row(arg)
    /\ UNCHANGED <<measurements, selected_tab, tasks, started, crashed, last_load, arg>>

\* ProfRaw::from_csv_row(arg)
CallProfRaw ==
    /\ pc = "call"
    /\ pc' = "ProfRaw::from_csv_row"
    /\ ret' = ProfRaw_from_csv_row(arg)
    /\ UNCHANGED <<measurements, selected_tab, tasks, started, crashed, last_load, arg>>

\* Profile::from_raw of the ProfRaw just decoded; ret keeps the ProfRaw beside it
CallProfile ==
    /\ pc = "ProfRaw::from_csv_row"
    /\ ~ret.panic
    /\ pc' = "Profile::from_raw"
    /\ ret' = [raw |-> ret.val[1], profile |-> Profile_from_raw(ret.val[1])]
    /\ UNCHANGED <<measurements, selected_tab, tasks, started, crashed, last_load, arg>>

\* UserMeasurements::from_raw(arg)
CallUserMeasurements ==
    /\ pc = "call"
    /\ pc' = "UserMeasurements::from_raw"
    /\ ret' = UserMeasurements_from_raw(arg)
    /\ UNCHANGED <<measurements, selected_tab, tasks, started, crashed, last_load, arg>>

\* TanitaParser { root_dir: arg }.get_raw_users_records()
CallGetRawUsersRecords ==
    /\ pc = "call"
    /\ pc' = "get_raw_users_records"
    /\ ret' = get_raw_users_records(root_dir_of(arg))
    /\ UNCHANGED <<measurements, selected_tab, tasks, started, crashed, last_load, arg>>

InitRow == AppIdle /\ pc = "call" /\ ret = <<>> /\ arg \in RowInputs
NextRow == CallDataRaw \/ CallProfRaw
SpecRow == InitRow /\ [][NextRow]_vars

\* profile lines whose birth date does not parse: two components, four
\* components, a day that is no number, a month out of the range of u8
P_four_parts == join(<<K_DB, <<"1", "4", "/", "0", "6", "/", "1", "9", "9", "1", "/", "1">>, K_GE, <<"1">>, K_Hm, <<"1", "8", "0">>>>, ",")
P_day_not_number == join(<<K_DB, <<"x", "/", "0", "6", "/", "1", "9", "9", "1">>, K_GE, <<"2">>, K_AL, <<"3">>>>, ",")
P_month_out_of_range == join(<<K_DB, <<"1", "4", "/", "2", "5", "6", "/", "1", "9", "9", "1">>, K_GE, <<"7">>, K_Bt, <<"2">>>>, ",")
BadBirthLines == {P_bad_birth, P_four_parts, P_day_not_number, P_month_out_of_range}

InitProfLine == AppIdle /\ pc = "call" /\ ret = <<>> /\ arg \in ProfLineInputs \cup BadBirthLines
NextProfLine == CallProfRaw \/ CallProfile
SpecProfLine == InitProfLine /\ [][NextProfLine]_vars

InitUser == AppIdle /\ pc = "call" /\ ret = <<>> /\ arg \in RawUserInputs
NextUser == CallUserMeasurements
SpecUser == InitUser /\ [][NextUser]_vars

InitRaw == AppIdle /\ pc = "call" /\ ret = <<>> /\ arg \in Paths
NextRaw == CallGetRawUsersRecords
SpecRaw == InitRaw /\ [][NextRaw]_vars

(***************************************************************************)
(* Claims about the record decoders (SpecRow, SpecProfLine)                *)
(***************************************************************************)
tokens_of(row) == split(row, ",")
DecodedData == pc = "DataRaw::from_csv_row"
DecodedProf == pc = "ProfRaw::from_csv_row"
EvenRow == Len(tokens_of(arg)) % 2 = 0
OddRow == Len(tokens_of(arg)) % 2 = 1
\* the tokens before the dangling last one
paired_tokens(row) == SubSeq(tokens_of(row), 1, Len(tokens_of(row)) - 1)

\* C1: a row with an odd number of tokens (the empty row included) is decoded by
\* both decoders without an out-of-range access: the call returns, and the record
\* is the one its complete key/value pairs give, the dangling last token discarded.
C1_OddRowDecodesItsPairs ==
    /\ (DecodedData /\ OddRow) =>
          (~ret.panic /\ ret = DataRaw_loop(paired_tokens(arg), 0, DataRaw_default))
    /\ (DecodedProf /\ OddRow) =>
          (~ret.panic /\ ret = ProfRaw_loop(paired_tokens(arg), 0, ProfRaw_default))

C2_QuotedLine == ProfLine(1..Len(ProfLineTokens))
C2_RawAsClaimed(raw) ==
    /\ raw.model = <<"B", "C", "-", "6", "0", "1">>
    /\ raw.birth_date_dmy = <<"1", "4", "/", "0", "6", "/", "1", "9", "9", "1">>
    /\ raw.gender_code = 1
    /\ raw.height_cm = [mant |-> 175, exp |-> 0]
    /\ raw.activity_level_code = 2
    /\ raw.body_type_code = 0
C2_ProfileAsClaimed(profile) ==
    /\ is_some(profile)
    /\ profile[1].gender.variant = "Male"
    /\ profile[1].birth_date_dmy = [days |-> 14, months |-> 6, years |-> 1991]

\* C2 as stated: the profile line with every token, tags included, in double quotes
\* decodes to model BC-601, birth date 14/06/1991, gender code 1, height 175.0,
\* activity 2, body type 0, and Profile::from_raw of it is Male, born 14/6/1991.
C2_QuotedLineDecodes ==
    (pc = "Profile::from_raw" /\ arg = C2_QuotedLine) =>
        (C2_RawAsClaimed(ret.raw) /\ C2_ProfileAsClaimed(ret.profile))

\* C2 as amended: the line decodes to those values when its tags and its numeric
\* values are bare (its string values MO, DB, CS in double quotes or not), and
\* Profile::from_raw of it is Male, born 14/6/1991, with height 175.0, activity 2
\* and body type 0; the line with every token quoted matches no tag, decodes to
\* the default record, and Profile::from_raw of it is None.
C2_BareTagsLineDecodes ==
    pc = "Profile::from_raw" =>
        /\ (\E q \in SUBSET ProfStringPositions : arg = ProfLine(q)) =>
              /\ C2_RawAsClaimed(ret.raw)
              /\ C2_ProfileAsClaimed(ret.profile)
              /\ ret.profile[1].height_cm = [mant |-> 175, exp |-> 0]
              /\ ret.profile[1].activity_level_code = 2
              /\ ret.profile[1].body_type_code = 0
        /\ arg = C2_QuotedLine => (ret.raw = ProfRaw_default /\ ret.profile = None)

\* the line as the device writes it has been decoded and a Profile built from it
C2_Witness ==
    /\ pc = "Profile::from_raw"
    /\ arg = ProfLine(ProfStringPositions)
    /\ C2_ProfileAsClaimed(ret.profile)

\* the optional fields of DataRaw: <<field, tag, the parse its arm applies>>
C3_OptionalFields ==
    {<<"muscle_percent", K_mW, "f32">>, <<"muscle_right_arm_pct", K_mr, "f32">>,
     <<"muscle_left_arm_pct", K_ml, "f32">>, <<"muscle_right_leg_pct", K_mR, "f32">>,
     <<"muscle_left_leg_pct", K_mL, "f32">>, <<"muscle_trunk_pct", K_mT, "f32">>,
     <<"bone_kg", K_bw, "f32">>, <<"water_percent", K_ww, "f32">>,
     <<"visceral_fat_rating", K_IF, "u8">>, <<"metabolic_age_years", K_rA, "u8">>,
     <<"daily_calorie_intake_kcal", K_rD, "u16">>}
\* the 1-based positions of the tokens that are keys
key_positions(tokens) == {k \in 1..Len(tokens) : k % 2 = 1}
key_occurs(tokens, key) == \E k \in key_positions(tokens) : tokens[k] = key
\* the value token after the last occurrence of key as a key token
last_value(tokens, key) ==
    tokens[1 + CHOOSE k \in key_positions(tokens) :
                   /\ tokens[k] = key
                   /\ \A j \in key_positions(tokens) : tokens[j] = key => j <= k]
C3_Parses(value, type) ==
    CASE type = "u8" -> is_some(str_parse_u8(value))
      [] type = "u16" -> is_some(str_parse_u16(value))
      [] OTHER -> is_some(str_parse_f32(value))
C3_Zero(type) == IF type = "f32" THEN F32_ZERO ELSE 0

\* C3: in the record decoded from a row with an even number of tokens, each of
\* the eleven optional fields is present if and only if its tag occurs as a key
\* token, whether or not its value parses: a value that does not parse gives
\* present(0).  A row with the pair IF,7 and no rA gives
\* visceral_fat_rating = present(7) and metabolic_age_years = absent.
C3_OptionalPresentIffKeySeen ==
    (DecodedData /\ EvenRow) =>
        /\ ~ret.panic
        /\ \A f \in C3_OptionalFields :
              /\ is_some(ret.val[1][f[1]]) <=> key_occurs(tokens_of(arg), f[2])
              /\ (key_occurs(tokens_of(arg), f[2])
                  /\ ~C3_Parses(last_value(tokens_of(arg), f[2]), f[3]))
                 => ret.val[1][f[1]] = Some(C3_Zero(f[3]))
        /\ (key_occurs(tokens_of(arg), K_IF) /\ last_value(tokens_of(arg), K_IF) = V_7
            /\ ~key_occurs(tokens_of(arg), K_rA))
           => (ret.val[1].visceral_fat_rating = Some(7)
               /\ ret.val[1].metabolic_age_years = None)

\* the row IF,7,XX,IF has been decoded: IF,7 is a pair, the second IF only a value
C3_Witness ==
    /\ DecodedData
    /\ arg = join(<<K_IF, V_7, K_XX, K_IF>>, ",")
    /\ ret.val[1].visceral_fat_rating = Some(7)
    /\ ret.val[1].metabolic_age_years = None

\* the (key, value) pairs of a token sequence of even length, in line order
pairs_of(tokens) == [j \in 1..(Len(tokens) \div 2) |-> <<tokens[2 * j - 1], tokens[2 * j]>>]
C4_IsUnknown(pair) == pair[1] \notin KnownDataKeys

\* C4: in the record decoded from a row with an even number of tokens, extras is
\* the sequence of the (key, value) pairs whose key is none of the 28 data tags,
\* in line order, the value token as it stands in the row: no such pair is
\* dropped, reordered or merged with an equal one, and no pair of a known tag is there.
C4_ExtrasAreTheUnknownPairs ==
    (DecodedData /\ EvenRow) =>
        /\ ~ret.panic
        /\ ret.val[1].extras = SelectSeq(pairs_of(tokens_of(arg)), C4_IsUnknown)

\* the row XX,"7",XX,"7" has been decoded: the same unknown pair twice, value quoted
C4_Witness ==
    /\ DecodedData
    /\ arg = join(<<K_XX, quoted(V_7), K_XX, quoted(V_7)>>, ",")
    /\ Len(ret.val[1].extras) = 2

(***************************************************************************)
(* Claims about the domain builder (SpecUser) and the load (SpecRaw, Spec) *)
(***************************************************************************)
Loaded == is_some(last_load)
\* a panic has unwound out of Application::update, out of Application::view
LoadPanicked == crashed /\ pc = "app"
ViewPanicked == crashed /\ pc = "Application::view"
loaded_path == last_load[1].file
\* the indices whose profile file is there, and those whose profile is valid
profile_indices(path) == {i \in 1..MaxIndex : path.SYSTEM.files[i] # "absent"}
\* the indices whose profile file holds a line
line_indices(path) == {i \in 1..MaxIndex : path.SYSTEM.files[i] \in {"valid", "bad_birth"}}
valid_indices(path) == {i \in 1..MaxIndex : path.SYSTEM.files[i] = "valid"}
\* both subdirectories list, and every profile file has a readable data file
AllPaired(path) ==
    /\ path.DATA.state = "listed" /\ path.SYSTEM.state = "listed"
    /\ \A i \in profile_indices(path) : path.DATA.files[i] \in {"two", "three"}

\* C5: when a load holds several user pairs and the profile of one of them fails
\* validation (its birth date does not parse), only that user's record is left
\* out: the load completes, and measurements holds a UserMeasurements for every
\* other pair.
C5_InvalidProfileOmitsOneUser ==
    (/\ Loaded /\ AllPaired(loaded_path)
     /\ line_indices(loaded_path) = profile_indices(loaded_path)
     /\ valid_indices(loaded_path) # {}
     /\ valid_indices(loaded_path) # profile_indices(loaded_path))
    => (/\ ~LoadPanicked
        /\ (~crashed =>
              {measurements[p].index : p \in 1..Len(measurements)} = valid_indices(loaded_path)))

CalledUserMeasurements == pc = "UserMeasurements::from_raw"
ProfileIsValid(raw) == is_some(Date_from_string(raw.profile.birth_date_dmy))
DateTimeParses(d) == is_some(Date_from_string(d.date_dmy)) /\ is_some(Time_from_string(d.time_hms))

\* C6: given a valid profile, UserMeasurements::from_raw returns measurements that
\* are the raw data records whose date and time both parse, in file order: a
\* record that does not parse is passed over and the later ones are still built.
C6_MeasurementsAreTheParsedRecords ==
    (CalledUserMeasurements /\ ProfileIsValid(arg)) =>
        /\ ~ret.panic
        /\ LET kept == SelectSeq(arg.data, DateTimeParses)
               built == ret.val[1].measurements
           IN /\ Len(built) = Len(kept)
              /\ \A j \in 1..Len(kept) : Some(built[j]) = Measurement_from_raw(kept[j])

\* three records, the first with a date that does not parse, the two after it built
C6_Witness ==
    /\ CalledUserMeasurements /\ ProfileIsValid(arg)
    /\ Len(arg.data) = 3
    /\ ~DateTimeParses(arg.data[1]) /\ DateTimeParses(arg.data[2]) /\ DateTimeParses(arg.data[3])
    /\ Len(ret.val[1].measurements) = 2

CalledGetRaw == pc = "get_raw_users_records"
BothDirsExist == arg.DATA.state # "missing" /\ arg.SYSTEM.state # "missing"
\* the index -> file mappings collect_files builds for the two subdirectories
prof_map == collect_files(root_dir_of(arg).SYSTEM)
data_map == collect_files(root_dir_of(arg).DATA)

\* C7: if some index is in the profile mapping and not in the data mapping,
\* get_raw_users_records fails for the whole load: it yields no user record at
\* all, not even for the indices that are paired and sort before the unmatched one.
C7_UnmatchedProfileFailsTheLoad ==
    (CalledGetRaw /\ BothDirsExist /\ (DOMAIN prof_map) \ (DOMAIN data_map) # {}) =>
        (ret.panic /\ ret.val = <<>>)

\* PROF1, PROF2 and DATA1 but no DATA2: index 1 is paired, index 2 is not
C7_Witness ==
    /\ CalledGetRaw
    /\ arg.SYSTEM.state = "listed" /\ arg.DATA.state = "listed"
    /\ DOMAIN prof_map = {1, 2} /\ DOMAIN data_map = {1}
    /\ arg.DATA.files[1] = "two"
    /\ ret.panic

\* C8: an index in the data mapping with no matching index in the profile
\* mapping makes the load fail, as a profile index with no data index does.
C8_UnmatchedDataFailsTheLoad ==
    (CalledGetRaw /\ BothDirsExist /\ (DOMAIN data_map) \ (DOMAIN prof_map) # {}) =>
        ret.panic

\* C9: if the root directory lacks SYSTEM or DATA, the load fails with a
\* MissingDir error that names the missing subdirectory, handed to the caller
\* as a value, and no records.
C9_MissingDirIsAnErrorValue ==
    (CalledGetRaw /\ ~BothDirsExist) =>
        /\ ~ret.panic
        /\ "err" \in DOMAIN ret
        /\ ret.err \in {<<"MissingDir", DATA_FOLDER_NAME>>, <<"MissingDir", PROFILE_FOLDER_NAME>>}
        /\ arg[ret.err[2]].state = "missing"

\* C10: if listing one of the two subdirectories fails, collect_files returns an
\* empty mapping for that side and the load goes on without a fatal abort, also
\* when it is DATA that fails to list while SYSTEM holds a profile file.
C10_ListingErrorDoesNotAbort ==
    (CalledGetRaw /\ BothDirsExist) =>
        /\ arg.DATA.state = "unlistable" => (data_map = EmptyMap /\ ~ret.panic)
        /\ arg.SYSTEM.state = "unlistable" => (prof_map = EmptyMap /\ ~ret.panic)

(***************************************************************************)
(* The pairing of get_raw_users_records on directory listings (SpecPair)   *)
(***************************************************************************)
\* str::to_ascii_lowercase, for the names a directory may list in lower case
char_to_ascii_lowercase(c) ==
    IF \E i \in 1..26 : UpperChars[i] = c
    THEN LowerChars[CHOOSE i \in 1..26 : UpperChars[i] = c]
    ELSE c
to_ascii_lowercase(s) == [i \in 1..Len(s) |-> char_to_ascii_lowercase(s[i])]

\* a name that matches neither prefix
OtherName == <<"N", "O", "T", "E", "S", ".", "T", "X", "T">>
\* the names a directory may list for the indices 1..MaxIndex: PROF<i>.CSV and
\* DATA<i>.CSV, each also in lower case, and a name that is no export file
ListedNames ==
    UNION {{prof_name(i), to_ascii_lowercase(prof_name(i)),
            data_name(i), to_ascii_lowercase(data_name(i))} : i \in 1..MaxIndex}
    \cup {OtherName}
\* a listed file; its content is its own name, so that two entries differ
named_entry(name) == file_entry(name, name)

\* the sequences of at most n distinct elements of S: the orders in which
\* fs::read_dir may yield the files of a directory
RECURSIVE DistinctSeqs(_, _)
DistinctSeqs(S, n) ==
    IF n = 0 THEN {<<>>}
    ELSE DistinctSeqs(S, n - 1)
         \cup UNION {{Append(q, x) : x \in S \ {q[k] : k \in 1..Len(q)}} :
                        q \in {r \in DistinctSeqs(S, n - 1) : Len(r) = n - 1}}

listed_dir(names) ==
    [is_dir |-> TRUE, read_dir_ok |-> TRUE,
     entries |-> [k \in 1..Len(names) |-> named_entry(names[k])]]
\* any listing of at most MaxIndex of the names
AnyListings == {listed_dir(q) : q \in DistinctSeqs(ListedNames, MaxIndex)}
\* the listings that hold only the upper-case export files of a set of indices
RECURSIVE names_of(_, _, _)
names_of(I, i, is_prof) ==
    IF i > MaxIndex THEN <<>>
    ELSE (IF i \in I THEN <<(IF is_prof THEN prof_name(i) ELSE data_name(i))>> ELSE <<>>)
         \o names_of(I, i + 1, is_prof)
PlainListings(is_prof) == {listed_dir(names_of(I, 1, is_prof)) : I \in SUBSET (1..MaxIndex)}
\* the root directories handed to the pairing: one side lists anything
PairInputs ==
    {[DATA |-> d, SYSTEM |-> y] : d \in PlainListings(FALSE), y \in AnyListings}
    \cup {[DATA |-> d, SYSTEM |-> y] : d \in AnyListings, y \in PlainListings(TRUE)}

\* get_raw_users_records from collect_files to the end of the pairing loop, on
\* the root directory arg; ret keeps the two maps beside the pairs
CallPairing ==
    /\ pc = "call"
    /\ pc' = "pairing"
    /\ ret' = [data_files |-> collect_files(arg.DATA),
               prof_files |-> collect_files(arg.SYSTEM),
               tanita_pairs |-> pair_loop(collect_files(arg.SYSTEM), collect_files(arg.DATA),
                                          DOMAIN collect_files(arg.SYSTEM), <<>>)]
    /\ UNCHANGED <<measurements, selected_tab, tasks, started, crashed, last_load, arg>>

InitPair == AppIdle /\ pc = "call" /\ ret = <<>> /\ arg \in PairInputs
NextPair == CallPairing
SpecPair == InitPair /\ [][NextPair]_vars

Paired == pc = "pairing"
file_names(dir) == {dir.entries[k].file_name : k \in 1..Len(dir.entries)}

\* C11: file-name matching is case-insensitive: with PROF1.CSV and prof2.csv in
\* SYSTEM and DATA1.CSV and DATA2.CSV in DATA, in whatever order the directories
\* list them, the pairing yields exactly two pairs, of index 1 and of index 2, and
\* the pair of an index holds the profile path and the data path of that index.
C11_CaseInsensitivePairing ==
    (/\ Paired
     /\ file_names(arg.SYSTEM) = {prof_name(1), to_ascii_lowercase(prof_name(2))}
     /\ file_names(arg.DATA) = {data_name(1), data_name(2)})
    => /\ ~ret.tanita_pairs.panic
       /\ ret.tanita_pairs.val[1] =
            <<[index |-> 1, profile |-> named_entry(prof_name(1)),
               data |-> named_entry(data_name(1))],
              [index |-> 2, profile |-> named_entry(to_ascii_lowercase(prof_name(2))),
               data |-> named_entry(data_name(2))]>>

\* SYSTEM lists prof2.csv before PROF1.CSV and the two pairs have been built
C11_Witness ==
    /\ Paired
    /\ arg.SYSTEM = listed_dir(<<to_ascii_lowercase(prof_name(2)), prof_name(1)>>)
    /\ file_names(arg.DATA) = {data_name(1), data_name(2)}
    /\ Len(ret.tanita_pairs.val[1]) = 2

\* C12: each directory is indexed with its own prefix only: every entry of the
\* profile mapping is a file named PROF<digits>.CSV and every entry of the data
\* mapping is a file named DATA<digits>.CSV (in any letter case), so a DATA<n>.CSV
\* listed in SYSTEM, or a PROF<n>.CSV listed in DATA, contributes no index and
\* never takes the place of the correctly named file of the same index.
C12_OwnPrefixOnly ==
    Paired =>
        /\ \A i \in DOMAIN ret.prof_files :
              to_ascii_uppercase(ret.prof_files[i].file_name) = prof_name(i)
        /\ \A i \in DOMAIN ret.data_files :
              to_ascii_uppercase(ret.data_files[i].file_name) = data_name(i)

\* C13: no failure of the load pipeline ends the process: whatever the picked
\* directory holds (a missing subdirectory, a profile without its data file, a
\* file that cannot be read, a profile file with no line, a birth date that
\* does not parse), the load returns to the caller and the application lives on.
C13_LoadNeverPanics == Loaded => ~LoadPanicked

\* C14: when both subdirectories exist and are listed and neither holds a file
\* that matches, the load is a structural failure reported as a NoFilesFound
\* error; it does not complete with an empty sequence of user records.
C14_NoFilesIsAnError ==
    (/\ CalledGetRaw
     /\ arg.DATA.state = "listed" /\ arg.SYSTEM.state = "listed"
     /\ prof_map = EmptyMap /\ data_map = EmptyMap)
    => /\ ret # Ok(<<>>)
       /\ "err" \in DOMAIN ret
       /\ ret.err = <<"NoFilesFound">>

(***************************************************************************)
(* Date::from_string and Date::to_srting on date texts (SpecDate)          *)
(***************************************************************************)
MaxParts == 4
\* the components of a date text: in and out of the range of u8 and of u16,
\* not a number, empty
DateParts == {<<"1", "4">>, <<"2", "5", "5">>, <<"2", "5", "6">>, <<"1", "9", "9", "1">>,
              <<"6", "5", "5", "3", "6">>, <<"x">>, <<>>}
\* the double quotes around the text: none, one on each side, a leading one only
DateQuotes == {"none", "both", "leading"}
DateInputs ==
    {[parts |-> q, quotes |-> w] :
        q \in UNION {[1..n -> DateParts] : n \in 1..MaxParts}, w \in DateQuotes}
\* the text of an input: its parts joined by "/", inside its quotes
date_text(d) ==
    (IF d.quotes = "none" THEN <<>> ELSE <<QUOTE>>)
    \o join(d.parts, "/")
    \o (IF d.quotes = "both" THEN <<QUOTE>> ELSE <<>>)

\* Date::from_string(date_text(arg))
CallDateFromString ==
    /\ pc = "call"
    /\ pc' = "Date::from_string"
    /\ ret' = [date |-> Date_from_string(date_text(arg))]
    /\ UNCHANGED <<measurements, selected_tab, tasks, started, crashed, last_load, arg>>

\* date.to_srting() of the Date just parsed, and Date::from_string of that string
CallDateToSrting ==
    /\ pc = "Date::from_string"
    /\ is_some(ret.date)
    /\ pc' = "Date::to_srting"
    /\ ret' = [date |-> ret.date,
               formatted |-> Date_to_srting(ret.date[1]),
               reparsed |-> Date_from_string(Date_to_srting(ret.date[1]))]
    /\ UNCHANGED <<measurements, selected_tab, tasks, started, crashed, last_load, arg>>

InitDate == AppIdle /\ pc = "call" /\ ret = <<>> /\ arg \in DateInputs
NextDate == CallDateFromString \/ CallDateToSrting
SpecDate == InitDate /\ [][NextDate]_vars

ParsedDate == pc = "Date::from_string"
\* the number a component stands for, -1 when it is not a run of digits
C15_Number(t) ==
    CASE t = <<"1", "4">> -> 14
      [] t = <<"2", "5", "5">> -> 255
      [] t = <<"2", "5", "6">> -> 256
      [] t = <<"1", "9", "9", "1">> -> 1991
      [] t = <<"6", "5", "5", "3", "6">> -> 65536
      [] OTHER -> -1
\* exactly three components: a u8 day, a u8 month, a u16 year
C15_WellFormed(parts) ==
    /\ Len(parts) = 3
    /\ C15_Number(parts[1]) \in 0..U8_MAX
    /\ C15_Number(parts[2]) \in 0..U8_MAX
    /\ C15_Number(parts[3]) \in 0..U16_MAX

\* C15 as stated: Date::from_string returns a Date exactly for the strings whose
\* split on "/" gives three components that each parse as an unsigned integer
\* of the field's width; a double quote makes the component it is in non-numeric.
C15_ThreeNumericComponentsOnly ==
    ParsedDate => (is_some(ret.date) <=> (arg.quotes = "none" /\ C15_WellFormed(arg.parts)))

\* C15, amended: Date::from_string first removes the double quotes at the two
\* ends of the string; it returns a Date exactly when what is left splits on "/"
\* into three components that parse as u8, u8 and u16, and the Date holds their
\* values; with fewer or more components, or a component that is empty, not a
\* number or out of range, it returns absence.
C15_ThreeNumericComponentsAfterQuotes ==
    ParsedDate =>
        /\ is_some(ret.date) <=> C15_WellFormed(arg.parts)
        /\ is_some(ret.date) =>
              ret.date[1] = [days |-> C15_Number(arg.parts[1]),
                             months |-> C15_Number(arg.parts[2]),
                             years |-> C15_Number(arg.parts[3])]

\* the text "14/255/1991" with its quotes on has been parsed into a Date
C15_Witness ==
    /\ ParsedDate
    /\ arg.quotes = "both"
    /\ arg.parts = <<<<"1", "4">>, <<"2", "5", "5">>, <<"1", "9", "9", "1">>>>
    /\ ret.date = Some([days |-> 14, months |-> 255, years |-> 1991])

\* C16: formatting a parsed Date gives a string in day/month/year order again:
\* parsing the formatted string gives the same days, months and years.
C16_FormatRoundTrips ==
    (pc = "Date::to_srting") => (ret.reparsed = ret.date)

(***************************************************************************)
(* Gender::from on every u8 code (SpecGender)                              *)
(***************************************************************************)
\* the values of u8
U8 == 0..U8_MAX

\* Gender::from(arg)
CallGenderFrom ==
    /\ pc = "call"
    /\ pc' = "Gender::from"
    /\ ret' = Gender_from(arg)
    /\ UNCHANGED <<measurements, selected_tab, tasks, started, crashed, last_load, arg>>

InitGender == AppIdle /\ pc = "call" /\ ret = <<>> /\ arg \in U8
NextGender == CallGenderFrom
SpecGender == InitGender /\ [][NextGender]_vars

\* C17: Gender::from is total over the u8 codes 0..255: code 1 gives Male, code 2
\* gives Female, and every other code c gives Other(c), carrying that same code.
C17_GenderFromIsTotal ==
    (pc = "Gender::from") =>
        /\ ret.variant \in {"Male", "Female", "Other"}
        /\ ret.variant = "Male" <=> arg = 1
        /\ ret.variant = "Female" <=> arg = 2
        /\ ret.variant = "Other" <=> arg \notin {1, 2}
        /\ ret.variant = "Other" => ret.code = Some(arg)

\* the code 255 has been converted to Other(255)
C17_Witness ==
    /\ pc = "Gender::from"
    /\ arg = U8_MAX
    /\ ret = [variant |-> "Other", code |-> Some(U8_MAX)]

(***************************************************************************)
(* Claims about Profile::from_raw (SpecProfLine)                           *)
(***************************************************************************)
BuiltProfile == pc = "Profile::from_raw"

\* C18: Profile::from_raw returns a Profile if and only if the raw birth-date
\* string parses as a Date; then the Profile holds that Date, the raw height,
\* activity-level code and body-type code, and Gender::from of the raw gender
\* code; otherwise it returns absence, never a Profile with some default date.
C18_ProfileIffBirthDateParses ==
    BuiltProfile =>
        /\ is_some(ret.profile) <=> is_some(Date_from_string(ret.raw.birth_date_dmy))
        /\ is_some(ret.profile) =>
              /\ Some(ret.profile[1].birth_date_dmy) = Date_from_string(ret.raw.birth_date_dmy)
              /\ ret.profile[1].height_cm = ret.raw.height_cm
              /\ ret.profile[1].activity_level_code = ret.raw.activity_level_code
              /\ ret.profile[1].body_type_code = ret.raw.body_type_code
              /\ ret.profile[1].gender = Gender_from(ret.raw.gender_code)

\* the line with the birth date 14/256/1991 has been decoded and no Profile built from it
C18_Witness ==
    /\ BuiltProfile
    /\ arg = P_month_out_of_range
    /\ ret.raw.birth_date_dmy = <<"1", "4", "/", "2", "5", "6", "/", "1", "9", "9", "1">>
    /\ ret.profile = None

(***************************************************************************)
(* Measurement::from_raw on raw data records (SpecMeasurement)             *)
(***************************************************************************)
\* date strings of a raw record: two that parse, then two components, four
\* components, another separator, a day that is no number, the empty string
DateTexts ==
    {<<"0", "1", "/", "0", "2", "/", "2", "0", "2", "0">>, <<"3", "1", "/", "1", "2", "/", "1", "9", "9", "9">>,
     <<"0", "1", "/", "0", "2">>, <<"0", "1", "/", "0", "2", "/", "2", "0", "2", "0", "/", "1">>,
     <<"2", "0", "2", "0", "-", "0", "2", "-", "0", "1">>, <<"x", "/", "0", "2", "/", "2", "0", "2", "0">>, <<>>}
\* time strings of a raw record: two that parse, then seconds out of the range
\* of u8, two components, four components, letters, the empty string
TimeTexts ==
    {<<"1", "0", ":", "1", "1", ":", "1", "2">>, <<"0", ":", "0", ":", "0">>,
     <<"2", "4", ":", "0", "0", ":", "3", "0", "0">>, <<"1", "0", ":", "1", "1">>,
     <<"1", "0", ":", "1", "1", ":", "1", "2", ":", "1", "3">>, <<"a", ":", "b", ":", "c">>, <<>>}
\* the rest of a raw record: a line with the profile echo, metrics, optional
\* fields, a checksum and an unknown pair; a line of metrics only; no pair at all
L_full == join(<<K_MO, quoted(<<"B", "C", "-", "6", "0", "1">>), K_GE, <<"1">>, K_AG, <<"3", "0">>, K_Hm, <<"1", "7", "5", ".", "0">>,
                 K_Wk, <<"7", "0", ".", "5">>, K_IF, V_7, K_rD, <<"2", "5", "0", "0">>, K_XX, V_x,
                 K_CS, quoted(<<"A", "B">>)>>, ",")
L_metrics == join(<<K_Wk, <<"8", "1", ".", "0">>, K_MI, <<"2", "4", ".", "9">>, K_FW, <<"2", "0", ".", "1">>>>, ",")
RawBases == {DataRaw_from_csv_row(l).val[1] : l \in {L_full, L_metrics}} \cup {DataRaw_default}
MeasurementInputs ==
    {[[b EXCEPT !.date_dmy = d] EXCEPT !.time_hms = t] :
        b \in RawBases, d \in DateTexts, t \in TimeTexts}

\* Measurement::from_raw(arg)
CallMeasurementFromRaw ==
    /\ pc = "call"
    /\ pc' = "Measurement::from_raw"
    /\ ret' = Measurement_from_raw(arg)
    /\ UNCHANGED <<measurements, selected_tab, tasks, started, crashed, last_load, arg>>

InitMeasurement == AppIdle /\ pc = "call" /\ ret = <<>> /\ arg \in MeasurementInputs
NextMeasurement == CallMeasurementFromRaw
SpecMeasurement == InitMeasurement /\ [][NextMeasurement]_vars

BuiltMeasurement == pc = "Measurement::from_raw"

\* C19: Measurement::from_raw returns a Measurement if and only if the raw date
\* string parses as a Date and the raw time string parses as a Time (three
\* components separated by ":", each a u8); the Measurement then holds that
\* Date and that Time; if either fails the result is absence.
C19_MeasurementIffDateAndTimeParse ==
    BuiltMeasurement =>
        /\ is_some(ret) <=> (/\ is_some(Date_from_string(arg.date_dmy))
                             /\ is_some(Time_from_string(arg.time_hms)))
        /\ is_some(ret) =>
              /\ Some(ret[1].date_time.date) = Date_from_string(arg.date_dmy)
              /\ Some(ret[1].date_time.time) = Time_from_string(arg.time_hms)

\* a record with the date 01/02/2020 and the time 24:00:300 has given no Measurement
C19_Witness ==
    /\ BuiltMeasurement
    /\ arg.date_dmy = <<"0", "1", "/", "0", "2", "/", "2", "0", "2", "0">>
    /\ arg.time_hms = <<"2", "4", ":", "0", "0", ":", "3", "0", "0">>
    /\ arg.weight_kg = [mant |-> 705, exp |-> 1]
    /\ ret = None

\* C20: a Measurement built by Measurement::from_raw holds every field of the raw
\* record with the raw record's value: the metrics and the optional fields, and
\* also the model, the gender code, the height, the checksum and the extras.
C20_EveryRawFieldCarried ==
    (BuiltMeasurement /\ is_some(ret)) =>
        \A f \in (DOMAIN arg) \ {"date_dmy", "time_hms"} :
            f \in DOMAIN ret[1] /\ ret[1][f] = arg[f]

(***************************************************************************)
(* The primitive parsers on value tokens (SpecParse)                       *)
(***************************************************************************)
\* the cores of a value token: integers at and beyond the ends of the ranges of
\* u8 and u16, zero padding, a decimal, letters, nothing
NumberCores ==
    {<<"0">>, <<"7">>, <<"0", "0", "7">>, <<"2", "5", "5">>, <<"2", "5", "6">>,
     <<"6", "5", "5", "3", "5">>, <<"6", "5", "5", "3", "6">>, <<"7", "0", ".", "5">>, <<"x">>, <<>>}
\* what stands around the core: nothing, double quotes, a space before, a space
\* after, a plus sign, a minus sign
NumberWraps == {"bare", "quoted", "space_before", "space_after", "plus", "minus"}
ParseInputs == {[core |-> c, wrap |-> w] : c \in NumberCores, w \in NumberWraps}
token_text(t) ==
    CASE t.wrap = "quoted" -> quoted(t.core)
      [] t.wrap = "space_before" -> <<" ">> \o t.core
      [] t.wrap = "space_after" -> t.core \o <<" ">>
      [] t.wrap = "plus" -> <<"+">> \o t.core
      [] t.wrap = "minus" -> <<"-">> \o t.core
      [] OTHER -> t.core

\* TanitaParser::parse_u8(token_text(arg))
CallParseU8 ==
    /\ pc = "call"
    /\ pc' = "parse_u8"
    /\ ret' = parse_u8(token_text(arg))
    /\ UNCHANGED <<measurements, selected_tab, tasks, started, crashed, last_load, arg>>

\* TanitaParser::parse_u16(token_text(arg))
CallParseU16 ==
    /\ pc = "call"
    /\ pc' = "parse_u16"
    /\ ret' = parse_u16(token_text(arg))
    /\ UNCHANGED <<measurements, selected_tab, tasks, started, crashed, last_load, arg>>

\* TanitaParser::parse_f32(token_text(arg))
CallParseF32 ==
    /\ pc = "call"
    /\ pc' = "parse_f32"
    /\ ret' = parse_f32(token_text(arg))
    /\ UNCHANGED <<measurements, selected_tab, tasks, started, crashed, last_load, arg>>

InitParse == AppIdle /\ pc = "call" /\ ret = <<>> /\ arg \in ParseInputs
NextParse == CallParseU8 \/ CallParseU16 \/ CallParseF32
SpecParse == InitParse /\ [][NextParse]_vars

\* the integer a core of digits stands for, -1 for the other cores
C21_Integer(core) ==
    CASE core = <<"0">> -> 0
      [] core = <<"7">> -> 7
      [] core = <<"0", "0", "7">> -> 7
      [] core = <<"2", "5", "5">> -> 255
      [] core = <<"2", "5", "6">> -> 256
      [] core = <<"6", "5", "5", "3", "5">> -> 65535
      [] core = <<"6", "5", "5", "3", "6">> -> 65536
      [] OTHER -> -1
\* what an unsigned parser of the range 0..max returns for a token: the integer
\* of a bare or plus-signed core of digits within the range, 0 for the rest
C21_Unsigned(t, max) ==
    IF t.wrap \in {"bare", "plus"} /\ C21_Integer(t.core) \in 0..max
    THEN C21_Integer(t.core)
    ELSE 0
\* what parse_f32 returns for a token: the signed decimal of a bare or signed
\* core that is a number, 0.0 for the rest
C21_Float(t) ==
    LET sign == IF t.wrap = "minus" THEN -1 ELSE 1 IN
    IF t.wrap \notin {"bare", "plus", "minus"} THEN F32_ZERO
    ELSE IF C21_Integer(t.core) >= 0 THEN [mant |-> sign * C21_Integer(t.core), exp |-> 0]
    ELSE IF t.core = <<"7", "0", ".", "5">> THEN [mant |-> sign * 705, exp |-> 1]
    ELSE F32_ZERO

\* C21: the primitive parsers never fail outward: parse_u8, parse_u16 and
\* parse_f32 return the value of a well-formed token and the zero value for every
\* other token: an empty one, digits in quotes or beside a space, and an integer
\* out of the range of the type (256 for u8, 65536 for u16), which gives 0 and
\* not the value modulo 2^w.
C21_ParsersFallBackToZero ==
    /\ (pc = "parse_u8") => ret = C21_Unsigned(arg, U8_MAX)
    /\ (pc = "parse_u16") => ret = C21_Unsigned(arg, U16_MAX)
    /\ (pc = "parse_f32") => ret = C21_Float(arg)

\* parse_u16 of the token 65536 has returned 0
C21_Witness ==
    /\ pc = "parse_u16"
    /\ token_text(arg) = <<"6", "5", "5", "3", "6">>
    /\ ret = 0

(***************************************************************************)
(* The reading and decoding of one pair of files (SpecRead)                *)
(***************************************************************************)
\* a line with a key and no value
L_odd == join(<<K_DT, quoted(<<"0", "5", "/", "0", "2", "/", "2", "0", "2", "0">>), K_Wk>>, ",")
L_blank == <<>>
\* the lines of a data file: lines that decode, a blank line, a line of three tokens
ReadDataLines == {L_first, L_bad_date, L_blank, L_odd}
\* the lines of a profile file after its first line
LaterProfLines == {P_bad_birth, L_blank, L_odd}
\* line terminators
CRLF == <<"\r", "\n">>
\* a pair of files by their lines: arg.prof_lines and arg.data_lines, every line
\* followed by arg.eol
ReadInputs ==
    {[prof_lines |-> <<first>> \o later, data_lines |-> d, eol |-> e] :
        first \in {P_valid, P_bad_birth}, later \in SeqsUpTo(LaterProfLines, 1),
        d \in SeqsUpTo(ReadDataLines, MaxRecords), e \in {NL, CRLF}}
RECURSIVE file_text(_, _)
file_text(ls, eol) == IF ls = <<>> THEN <<>> ELSE ls[1] \o eol \o file_text(Tail(ls), eol)
\* the TanitaPair of index 1 whose files hold the lines of an input
pair_of(r) ==
    [index |-> 1,
     profile |-> file_entry(prof_name(1), file_text(r.prof_lines, r.eol)),
     data |-> file_entry(data_name(1), file_text(r.data_lines, r.eol))]

\* the body of the read loop of get_raw_users_records on the pair of arg
CallReadPair ==
    /\ pc = "call"
    /\ pc' = "read_pair"
    /\ ret' = read_pair(pair_of(arg))
    /\ UNCHANGED <<measurements, selected_tab, tasks, started, crashed, last_load, arg>>

InitRead == AppIdle /\ pc = "call" /\ ret = <<>> /\ arg \in ReadInputs
NextRead == CallReadPair
SpecRead == InitRead /\ [][NextRead]_vars

ReadDone == pc = "read_pair"
DecodableLine(l) == Len(split(l, ",")) % 2 = 0

\* C22: every line of a data file is decoded into a raw record: the raw data
\* records of the user are as many as the lines of its data file, blank lines and
\* lines with an odd number of tokens included, and no line aborts the load.
C22_EveryLineYieldsARecord ==
    ReadDone => (~ret.panic /\ Len(ret.val[1].data) = Len(arg.data_lines))

\* C23: the raw profile of a user is decoded from the first line of its profile
\* file only: whatever the later lines are, it is the record that
\* ProfRaw::from_csv_row gives for the first line, so two files with the same
\* first line give the same raw profile.
C23_ProfileFromFirstLineOnly ==
    (ReadDone /\ \A k \in 1..Len(arg.data_lines) : DecodableLine(arg.data_lines[k])) =>
        /\ ~ret.panic
        /\ Ok(ret.val[1].profile) = ProfRaw_from_csv_row(arg.prof_lines[1])

\* a profile file whose second line has three tokens has been read, and the raw
\* profile holds the birth date of its first line
C23_Witness ==
    /\ ReadDone
    /\ arg.prof_lines = <<P_valid, L_odd>>
    /\ arg.data_lines = <<L_first>>
    /\ ~ret.panic
    /\ ret.val[1].profile.birth_date_dmy = <<"1", "4", "/", "0", "6", "/", "1", "9", "9", "1">>

(***************************************************************************)
(* Application::update and Application::view, under Spec                   *)
(***************************************************************************)
\* the user set the content area of Application::view shows:
\* &self.measurements[self.selected_tab], positions counted from 0 in the code
shown_position == selected_tab + 1
shown == measurements[shown_position]
\* pressing the tab button drawn for the set at position p (counted from 1 here)
PressTab(p) ==
    /\ p \in 1..Len(measurements)
    /\ TabSelected(measurements[p].index)
\* what a load of the directory chosen through file returns to update
loaded_from(file) == ui_ready_of(get_raw_users_records(root_dir_of(file)))

\* C24: handling TabSelected(i) sets selected_tab to i and changes nothing else:
\* the measurements are the same and no task is started
C24_TabSelectedOnlyMovesCursor ==
    [][\A i \in 0..MaxIndex :
          TabSelected(i) =>
            /\ selected_tab' = i
            /\ measurements' = measurements
            /\ tasks' = tasks /\ started' = started
            /\ crashed' = crashed /\ last_load' = last_load]_vars
\* a tab other than the initial one was selected on a loaded two-user directory
C24_Witness ==
    /\ ~crashed /\ Loaded /\ tasks = {}
    /\ Len(measurements) = 2 /\ selected_tab # 0

\* C25: handling PathPicked(None) is a no-op: measurements and selected_tab are
\* unchanged and no error is raised
C25_CancelIsNoOp ==
    [][\A t \in 1..MaxPicks :
          PathPickedNone(t) =>
            /\ measurements' = measurements
            /\ selected_tab' = selected_tab
            /\ crashed' = crashed /\ last_load' = last_load]_vars
\* every dialog opened was closed, the last load is that of the first dialog and
\* its measurements are on display: the second dialog was cancelled, or loaded
\* before the first did
C25_Witness ==
    /\ ~crashed /\ Loaded /\ started = 2 /\ tasks = {}
    /\ last_load[1].task = 1 /\ measurements # <<>>

\* C26: after a PathPicked(Some(p)) whose load completed, measurements is exactly
\* what was loaded from p, whatever was on display before and whatever tab
\* selections and cancelled dialogs followed
C26_LoadReplacesWholesale ==
    (Loaded /\ ~crashed) => measurements = loaded_from(loaded_path).val[1]
\* both dialogs have closed and the one-user load of the second is on display
C26_Witness ==
    /\ ~crashed /\ Loaded /\ started = 2 /\ tasks = {}
    /\ last_load[1].task = 2
    /\ Len(measurements) = 1

\* C27: a selection started before an earlier one completed supersedes it: the
\* result of a task that is not the last one started is discarded, it does not
\* change the measurements
C27_SupersededLoadIsDiscarded ==
    [][\A t \in 1..MaxPicks, file \in Paths :
          (PathPickedSome(t, file) /\ t < started /\ ~crashed')
            => measurements' = measurements]_vars

\* C28: whenever measurements is non-empty the cursor is below its length, and
\* view never indexes out of range
C28_CursorInRange ==
    /\ (~crashed /\ measurements # <<>>) => selected_tab < Len(measurements)
    /\ ~ViewPanicked

\* C29: pressing the tab button drawn for the set at position p makes view show
\* the set at position p
C29_TabButtonShowsItsSet ==
    [][\A p \in 1..MaxIndex :
          PressTab(p) =>
            /\ shown_position' \in 1..Len(measurements')
            /\ shown' = measurements[p]]_vars
====
